---- MODULE Spec2Model ----
(***************************************************************************)
(* Mutation-tool adapters and report parsers of the analyzer package       *)
(* (analyzer/tools.py, analyzer/utility.py, analyzer/project.py).          *)
(*                                                                         *)
(* SpecParsers : the four _get_mutation_score parsers as pure functions.   *)
(*               Init draws one collected report from bounded sets, the    *)
(*               single action of each engine applies its parser.          *)
(* SpecTool    : one adapter's lifecycle on a checkout: setup / run /      *)
(*               get_output over the files of the checkout and of the      *)
(*               tool-scoped output directory.                             *)
(***************************************************************************)
EXTENDS Integers, Sequences, FiniteSets, TLC

VARIABLES
    engine,     \* parsers: which adapter's parser is applied ("-" under SpecTool)
    report,     \* parsers: the collected report, as the parsing library hands it over
    text,       \* parsers: the characters of jumble_output.txt (<<>> for the others)
    result,     \* parsers: what _get_mutation_score returned or raised
    pc,         \* parsers: "ready" before the call, "done" after it
    tool,       \* lifecycle: the adapter at work ("-" under SpecParsers)
    checkout,   \* lifecycle: artifact path -> number of the run that wrote the
                \*   file found there, 0 when there is no file
    outdir,     \* lifecycle: group label -> file name -> number of the run that
                \*   wrote the file collected there, 0 when there is none
    dirs,       \* lifecycle: the group labels whose output directory exists
    staged,     \* lifecycle: the launcher files and build leftovers in the checkout
    runs,       \* lifecycle: number of engine runs so far
    last,       \* lifecycle: the last call, its outcome and the checkout before it
    collected,  \* lifecycle: TRUE from a successful get_output until the next run
    retry,      \* lifecycle: how far the last calls have followed "setup, run
                \*   writing every artifact, get_output", and whether a get_output
                \*   failing on an empty checkout came right before that setup
    docs,       \* lifecycle: the score documents on disk, one record
                \*   [dir, name, content] per file
    scored,     \* lifecycle: the get_mutation_score call just made, if the last
                \*   call was one: its arguments, the files its parser read, what
                \*   it returned or raised
    cwd,        \* utilities: the working directory of the process
    lastCall,   \* utilities: the last call: its arguments, the working directory
                \*   before it, the command it spawned, what it returned or raised
    test_dir,   \* test suites: the project's test directory, [exists, paths]
    backup,     \* test suites: the directory dev_backup next to it, [exists, paths]
    fsCall,     \* test suites: the last call, its outcome, both directories before it
    trip,       \* test suites: how far the last calls have followed "backup_tests,
                \*   suite swaps, restore_tests", and what the backup held at its start
    driver,     \* batch driver: the method running, its tools, the position in
                \*   its sequence of calls, and whether it runs, returned or raised
    events,     \* batch driver: the calls made so far, each with the tool it was
                \*   made for and its outcome
    active      \* batch driver: the tools set up whose last call has not finished

parserVars == <<engine, report, text, result, pc>>
toolVars == <<tool, checkout, outdir, dirs, staged, runs, last, collected, retry,
              docs, scored>>
utilVars == <<cwd, lastCall>>
testsVars == <<test_dir, backup, fsCall, trip>>
driverVars == <<driver, events, active>>
projectVars == <<utilVars, testsVars, driverVars>>
vars == <<engine, report, text, result, pc,
          tool, checkout, outdir, dirs, staged, runs, last, collected, retry,
          docs, scored, cwd, lastCall,
          test_dir, backup, fsCall, trip, driver, events, active>>

(***************************************************************************)
(* Bounds of the model.                                                    *)
(***************************************************************************)
MaxClasses == 2     \* entries of the "classes" list of a Judy report
MaxMutants == 2     \* mutantsCount of one Judy entry
MaxMutantNo == 3    \* mutant ids 1..MaxMutantNo of Major's two tables
MaxChildren == 2    \* direct children of the root of a Pit report
MaxNested == 1      \* elements nested below one child of a Pit report
MaxLexemes == 4     \* lexemes (lines, dots, newlines) of a Jumble transcript
MaxPathLen == 3     \* path components below a test or backup directory
MaxBatch == 2       \* tools of one batch of a driver
MaxRuns == 2        \* engine runs of one lifecycle behaviour

(***************************************************************************)
(* Outcomes of a parser call.  A call either returns the score dict or     *)
(* raises; both are values of one record shape so they can be compared.    *)
(* score is kept in thousandths (round(x, 3) * 1000), score_full as the    *)
(* fraction num/den that Python's true division computes.                  *)
(***************************************************************************)
NoChars == <<>>

NoResult ==
    [kind |-> "none", error |-> "-", killed |-> 0, live |-> 0, all |-> 0,
     score |-> 0, score_full |-> <<0, 1>>, reason |-> NoChars, script |-> "-"]

\* dict(killed=..., live=..., all=..., score=..., score_full=...)
ScoreDict(k, l, a, s, sf) ==
    [kind |-> "record", error |-> "-", killed |-> k, live |-> l, all |-> a,
     score |-> s, score_full |-> sf, reason |-> NoChars, script |-> "-"]

\* an exception of class err leaving the parser; RuntimeError carries the
\* reason quoted in its message and the script it names
Raise(err, why, scr) ==
    [kind |-> "error", error |-> err, killed |-> 0, live |-> 0, all |-> 0,
     score |-> 0, score_full |-> <<0, 1>>, reason |-> why, script |-> scr]

\* round(k / a, 3) in thousandths, for a > 0.  k/a is rounded to the nearest
\* thousandth; an exact tie needs 16 | a, outside every bound used here.
Round3(k, a) == (2000 * k + a) \div (2 * a)

\* score_full = k / a; score = round(score_full, 3); a = 0 raises
DivideAndRound(k, l, a) ==
    IF a = 0 THEN Raise("ZeroDivisionError", NoChars, "-")
    ELSE ScoreDict(k, l, a, Round3(k, a), <<k, a>>)

(***************************************************************************)
(* Judy: result.json, {"classes": [{"name", "mutantsCount",                *)
(* "mutantsKilledCount"}, ...]}                                            *)
(***************************************************************************)
class_under_mutation == "pkg.Target"
ClassNames == {"pkg.Target", "pkg.Other"}

JudyEntries ==
    { [name |-> n, mutantsCount |-> c, mutantsKilledCount |-> k] :
        n \in ClassNames, c \in 0..MaxMutants, k \in 0..MaxMutants }

SeqsUpTo(S, n) == UNION { [1..m -> S] : m \in 0..n }

JudyReports ==
    { r \in SeqsUpTo(JudyEntries, MaxClasses) :
        \A i \in 1..Len(r) : r[i].mutantsKilledCount <= r[i].mutantsCount }

\* [adict for adict in result_dict["classes"] if adict["name"] == self.class_under_mutation]
JudyMatching(classes) ==
    SelectSeq(classes, LAMBDA adict : adict.name = class_under_mutation)

JudyScoreOf(thedict) ==
    LET all_count    == thedict.mutantsCount
        killed_count == thedict.mutantsKilledCount
        live_count   == all_count - killed_count
    IN  DivideAndRound(killed_count, live_count, all_count)

Judy_get_mutation_score(classes) ==
    LET thedict == JudyMatching(classes)
    IN  IF Len(thedict) = 0 THEN Raise("AssertionError", NoChars, "-")
        ELSE IF Len(thedict) # 1 THEN Raise("AssertionError", NoChars, "-")
        ELSE JudyScoreOf(thedict[1])

(***************************************************************************)
(* Major: kill.csv (MutantNo,Status under one header line) and mutants.log *)
(* (MutantNo:Operator:...:Description, no header).  pandas.read_csv hands  *)
(* both over as frames indexed by MutantNo: kill as the Status of each id  *)
(* that has a row, mutants as the set of ids described.                    *)
(***************************************************************************)
MutantNos == 1..MaxMutantNo
Statuses == {"LIVE", "FAIL", "TIME"}

MajorReports ==
    { [kill |-> k, mutants |-> m] :
        k \in UNION { [ids -> Statuses] : ids \in SUBSET MutantNos },
        m \in SUBSET MutantNos }

\* mutants_df.join(kill_df): a left join on the index; a described mutant
\* without a kill row gets Status NaN, a kill row without description is dropped
MajorJoin(mutants_df, kill_df) ==
    [no \in mutants_df |-> IF no \in DOMAIN kill_df THEN kill_df[no] ELSE "NaN"]

\* len(df[df["Status"] == "LIVE"])
MajorLiveCount(df) == Cardinality({ no \in DOMAIN df : df[no] = "LIVE" })

\* the else branch of kill_df.empty
MajorJoinedScore(mutants_df, kill_df) ==
    LET df           == MajorJoin(mutants_df, kill_df)
        live_count   == MajorLiveCount(df)
        all_count    == Cardinality(DOMAIN df)
        killed_count == all_count - live_count
    IN  DivideAndRound(killed_count, live_count, all_count)

MajorEmptyScore_AllKilled(mutants_df) ==
    ScoreDict(Cardinality(mutants_df), 0, Cardinality(mutants_df), 0, <<0, 1>>)

\* the branch taken when kill_df.empty
MajorEmptyScore(mutants_df) ==
    ScoreDict(0, Cardinality(mutants_df), Cardinality(mutants_df), 0, <<0, 1>>)

Major_get_mutation_score(kill_df, mutants_df) ==
    IF DOMAIN kill_df = {}
    THEN MajorEmptyScore(mutants_df)
    ELSE MajorJoinedScore(mutants_df, kill_df)

(***************************************************************************)
(* Pit: mutations.xml.  ElementTree hands over the root; each direct child *)
(* carries its "detected" attribute ("None" when child.get finds none) and *)
(* the detected attributes of the elements nested below it.                *)
(***************************************************************************)
DetectedValues == {"true", "false"}

PitChildren ==
    { [detected |-> d, nested |-> n] :
        d \in DetectedValues \cup {"None"}, n \in SeqsUpTo(DetectedValues, MaxNested) }

PitReports == SeqsUpTo(PitChildren, MaxChildren)

\* bool_mapper = dict(true=True, false=False)
bool_mapper == [true |-> TRUE, false |-> FALSE]

\* "for child in tree": the direct children of the root, in document order
PitIter(tree) == tree

PitCount(children, val) ==
    Cardinality({ i \in 1..Len(children) : bool_mapper[children[i].detected] = val })

Pit_get_mutation_score(tree) ==
    LET children == PitIter(tree)
    IN  IF \E i \in 1..Len(children) : children[i].detected \notin DOMAIN bool_mapper
        THEN Raise("KeyError", NoChars, "-")
        ELSE LET killed_count == PitCount(children, TRUE)
                 live_count   == PitCount(children, FALSE)
                 all_count    == killed_count + live_count
             IN  DivideAndRound(killed_count, live_count, all_count)

(***************************************************************************)
(* Jumble: jumble_output.txt, the console transcript, as the sequence of   *)
(* its characters.  The four regular expressions of the parser are         *)
(* matched character by character, as re does: leftmost match, greedy      *)
(* repetition, backtracking where a shorter repetition can still succeed.  *)
(* A position is a 1-based index; a match is reported by the position      *)
(* after its last character, 0 meaning no match.                           *)
(***************************************************************************)
Digit == {"0", "1", "2", "3", "4", "5", "6", "7", "8", "9"}

Letter ==
    {"a", "b", "c", "d", "e", "f", "g", "h", "i", "j", "k", "l", "m",
     "n", "o", "p", "q", "r", "s", "t", "u", "v", "w", "x", "y", "z",
     "A", "B", "C", "D", "E", "F", "G", "H", "I", "J", "K", "L", "M",
     "N", "O", "P", "Q", "R", "S", "T", "U", "V", "W", "X", "Y", "Z"}

\* \s, [a-zA-Z.], [\w ]
WhiteSpace == {" ", "\n", "\t", "\r"}
QualifierChar == Letter \cup {"."}
ReasonChar == Letter \cup Digit \cup {"_", " "}

LitMutationPoints ==
    <<"M", "u", "t", "a", "t", "i", "o", "n", " ", "p", "o", "i", "n", "t",
      "s", " ", "=", " ">>

LitUnitTest ==
    <<",", " ", "u", "n", "i", "t", " ", "t", "e", "s", "t", " ", "t", "i",
      "m", "e", " ", "l", "i", "m", "i", "t", " ">>

LitJumblingTook ==
    <<"J", "u", "m", "b", "l", "i", "n", "g", " ", "t", "o", "o", "k", " ">>

LitMFail == <<"M", " ", "F", "A", "I", "L", ":">>

LitScore == <<"S", "c", "o", "r", "e", ":", " ">>

LitPercentParen == <<"%", " ", "(">>

verbose_bash_script == "jumble_verbose.sh"

\* the literal lit at position p (p = 0: an earlier part already failed)
MatchLit(t, p, lit) ==
    IF /\ p # 0
       /\ p + Len(lit) - 1 <= Len(t)
       /\ \A k \in 1..Len(lit) : t[p + k - 1] = lit[k]
    THEN p + Len(lit)
    ELSE 0

Min(S) == CHOOSE x \in S : \A y \in S : x <= y
Max(S) == CHOOSE x \in S : \A y \in S : x >= y

\* the position after the longest run of characters of class C from p on
SkipClass(t, p, C) ==
    Min({ q \in p..(Len(t) + 1) : q > Len(t) \/ t[q] \notin C })

\* C+ : at least one character of C
MatchPlus(t, p, C) ==
    IF p = 0 THEN 0
    ELSE LET q == SkipClass(t, p, C) IN IF q > p THEN q ELSE 0

\* C : exactly one character of C
MatchOne(t, p, C) ==
    IF p # 0 /\ p <= Len(t) /\ t[p] \in C THEN p + 1 ELSE 0

\* the position after the last character of the line p stands in ("." of re
\* matches every character but the newline)
EndOfLine(t, p) ==
    Min({ q \in p..(Len(t) + 1) : q > Len(t) \/ t[q] = "\n" })

\* \s*(.+) from p: \s* takes the longest run of whitespace and gives
\* characters back until .+ finds a character that is not a newline
DescriptionFrom(t, p, q) ==
    LET starts == { k \in p..q : k <= Len(t) /\ t[k] # "\n" }
    IN  IF starts = {} THEN 0 ELSE EndOfLine(t, Max(starts))

\* start_pattern = r"Mutation points = \d+, unit test time limit \d+\.\d+s"
StartAt(t, p) ==
    LET a == MatchLit(t, p, LitMutationPoints)
        b == MatchPlus(t, a, Digit)
        c == MatchLit(t, b, LitUnitTest)
        d == MatchPlus(t, c, Digit)
        e == MatchLit(t, d, <<".">>)
        f == MatchPlus(t, e, Digit)
    IN  MatchLit(t, f, <<"s">>)

\* end_pattern = r"Jumbling took \d+\.\d+s"
EndAt(t, p) ==
    LET a == MatchLit(t, p, LitJumblingTook)
        b == MatchPlus(t, a, Digit)
        c == MatchLit(t, b, <<".">>)
        d == MatchPlus(t, c, Digit)
    IN  MatchLit(t, d, <<"s">>)

\* live_mutant_pattern = r"M FAIL:\s*([a-zA-Z.]+):(\d+):\s*(.+)"
LiveAt(t, p) ==
    LET a == MatchLit(t, p, LitMFail)
        b == IF a = 0 THEN 0 ELSE SkipClass(t, a, WhiteSpace)
        c == MatchPlus(t, b, QualifierChar)
        d == MatchLit(t, c, <<":">>)
        e == MatchPlus(t, d, Digit)
        f == MatchLit(t, e, <<":">>)
    IN  IF f = 0 THEN 0 ELSE DescriptionFrom(t, f, SkipClass(t, f, WhiteSpace))

\* error_pattern = r"Score: \d% \(([\w ]+)": <<start of group 1, end of match>>
ErrorAt(t, p) ==
    LET a == MatchLit(t, p, LitScore)
        b == MatchOne(t, a, Digit)
        c == MatchLit(t, b, LitPercentParen)
    IN  <<c, MatchPlus(t, c, ReasonChar)>>

\* pattern.search(t[from-1:]): <<position of the leftmost match, position after it>>
SearchStart(t, p) ==
    LET found == { q \in p..Len(t) : StartAt(t, q) # 0 }
    IN  IF found = {} THEN <<0, 0>> ELSE <<Min(found), StartAt(t, Min(found))>>

SearchEnd(t, p) ==
    LET found == { q \in p..Len(t) : EndAt(t, q) # 0 }
    IN  IF found = {} THEN <<0, 0>> ELSE <<Min(found), EndAt(t, Min(found))>>

\* error_pattern.search(text): <<start of group 1, end of group 1>>, or <<0, 0>>
SearchError(t, p) ==
    LET found == { q \in p..Len(t) : ErrorAt(t, q)[2] # 0 }
    IN  IF found = {} THEN <<0, 0>> ELSE ErrorAt(t, Min(found))

\* live_mutant_pattern.subn("", region): the text left and the number of
\* substitutions; from p on, the leftmost match is cut out and the scan goes
\* on behind it, kept/n being the text kept and the matches counted so far
RECURSIVE LiveSubn(_, _, _, _)
LiveSubn(t, p, kept, n) ==
    LET found == { q \in p..Len(t) : LiveAt(t, q) # 0 }
    IN  IF found = {}
        THEN [killed_text |-> kept \o SubSeq(t, p, Len(t)), live_mutants_count |-> n]
        ELSE LiveSubn(t, LiveAt(t, Min(found)),
                      kept \o SubSeq(t, p, Min(found) - 1), n + 1)

\* len(re.sub(r"\s+", "", killed_text))
NonWhiteCount(killed_text) ==
    Cardinality({ k \in 1..Len(killed_text) : killed_text[k] \notin WhiteSpace })

\* the except AttributeError branch: the message is built from
\* error_pattern.search(text).group(1), which raises AttributeError itself
\* when the error pattern matches nowhere either
JumbleFailure(t) ==
    LET m == SearchError(t, 1)
    IN  IF m[2] = 0 THEN Raise("AttributeError", NoChars, "-")
        ELSE Raise("RuntimeError", SubSeq(t, m[1], m[2] - 1), verbose_bash_script)

JumbleRegionScore_AllIsKilled(region) ==
    LET sub                  == LiveSubn(region, 1, <<>>, 0)
        live_mutants_count   == sub.live_mutants_count
        killed_mutants_count == NonWhiteCount(sub.killed_text)
    IN  DivideAndRound(killed_mutants_count, live_mutants_count, killed_mutants_count)

\* the counting of text[i:j]
JumbleRegionScore(region) ==
    LET sub                  == LiveSubn(region, 1, <<>>, 0)
        live_mutants_count   == sub.live_mutants_count
        killed_mutants_count == NonWhiteCount(sub.killed_text)
        all_count            == live_mutants_count + killed_mutants_count
    IN  DivideAndRound(killed_mutants_count, live_mutants_count, all_count)

Jumble_get_mutation_score(t) ==
    LET s == SearchStart(t, 1)
        e == IF s[2] = 0 THEN <<0, 0>> ELSE SearchEnd(t, s[2])
    IN  IF s[2] = 0 \/ e[2] = 0 THEN JumbleFailure(t)
        ELSE JumbleRegionScore(SubSeq(t, s[2], e[1] - 1))

(***************************************************************************)
(* Transcripts are put together from whole lexemes, so that what a         *)
(* transcript says (which lines are live-mutant lines, which dots are      *)
(* killed-mutant marks) is known apart from what the parser makes of its   *)
(* characters.                                                             *)
(***************************************************************************)
StartLine ==
    <<"M", "u", "t", "a", "t", "i", "o", "n", " ", "p", "o", "i", "n", "t",
      "s", " ", "=", " ", "3", ",", " ", "u", "n", "i", "t", " ", "t", "e",
      "s", "t", " ", "t", "i", "m", "e", " ", "l", "i", "m", "i", "t", " ",
      "2", ".", "0", "2", "s", "\n">>

EndLine ==
    <<"J", "u", "m", "b", "l", "i", "n", "g", " ", "t", "o", "o", "k", " ",
      "1", ".", "0", "s", "\n">>

LiveLine ==
    <<"M", " ", "F", "A", "I", "L", ":", " ", "p", "k", "g", ".", "T", "a",
      "r", "g", "e", "t", ":", "1", "2", ":", " ", "1", ".", "0", " ", "-",
      ">", " ", "2", ".", "0", "\n">>

ScoreLine0 ==
    <<"S", "c", "o", "r", "e", ":", " ", "0", "%", " ", "(", "e", "n", "g",
      "i", "n", "e", " ", "c", "r", "a", "s", "h", "e", "d", "\n">>

ScoreLine100 ==
    <<"S", "c", "o", "r", "e", ":", " ", "1", "0", "0", "%", " ", "(", "I",
      "N", "T", "E", "R", "F", "A", "C", "E", ")", "\n">>

LexemeNames == {"START", "END", "LIVE", "DOT", "NL", "SCORE0", "SCORE100"}

Lexeme(name) ==
    CASE name = "START"    -> StartLine
      [] name = "END"      -> EndLine
      [] name = "LIVE"     -> LiveLine
      [] name = "DOT"      -> <<".">>
      [] name = "NL"       -> <<"\n">>
      [] name = "SCORE0"   -> ScoreLine0
      [] name = "SCORE100" -> ScoreLine100

RECURSIVE Flatten(_)
Flatten(lexemes) ==
    IF lexemes = <<>> THEN <<>>
    ELSE Lexeme(Head(lexemes)) \o Flatten(Tail(lexemes))

JumbleReports == SeqsUpTo(LexemeNames, MaxLexemes)

(***************************************************************************)
(* The adapters: class attributes of Tool's four subclasses.               *)
(***************************************************************************)
ToolNames == {"judy", "jumble", "major", "pit"}

bash_script(t) ==
    CASE t = "judy"   -> "judy.sh"
      [] t = "jumble" -> "jumble.sh"
      [] t = "major"  -> "None"
      [] t = "pit"    -> "pit.sh"

output(t) ==
    CASE t = "judy"   -> <<"result.json">>
      [] t = "jumble" -> <<"jumble_output.txt">>
      [] t = "major"  -> <<"kill.csv", "mutants.log">>
      [] t = "pit"    -> <<"pit_report/mutations.xml">>

Range(seq) == { seq[i] : i \in 1..Len(seq) }
Artifacts(t) == Range(output(t))

\* outfile.name: the last component of the artifact's path
FileName(outfile) ==
    IF outfile = "pit_report/mutations.xml" THEN "mutations.xml" ELSE outfile

\* get_output_dir(subdirectory): "None" and "" both name the tool's own
\* directory tools_output/<name>, any other label a directory below it
Labels == {"None", "GROUP"}

NothingStaged == [script |-> "none", verbose |-> FALSE, classes_mutated |-> FALSE]

Idle == [stage |-> "idle", afterFailure |-> FALSE]

\* the call before was a get_output that found no artifact at all and raised
FailedOnEmpty(call) ==
    /\ call.op = "get_output"
    /\ call.outcome = "FileNotFoundError"
    /\ \A a \in DOMAIN call.before : call.before[a] = 0

\* kwargs of a call that takes none of the two keys read by a setup
NoKw == [tests |-> FALSE, class |-> FALSE]

NoCall(co) ==
    [op |-> "none", label |-> "-", outcome |-> "-", before |-> co, again |-> FALSE,
     kw |-> NoKw]

remove_output_KeepsFiles(t, co) == co

(***************************************************************************)
(* Tool.remove_output: every expected artifact found in the checkout is    *)
(* deleted (os.remove for a file; the engines write files only).           *)
(***************************************************************************)
remove_output(t, co) ==
    [a \in DOMAIN co |-> IF a \in Artifacts(t) THEN 0 ELSE co[a]]

(***************************************************************************)
(* Tool.setup and its overrides.  kw tells which of kwargs["tests"] and    *)
(* kwargs["class"] the caller passed.                                      *)
(***************************************************************************)
\* Tool.setup: copy the launcher template, then remove_output
Tool_setup(t, st, co) ==
    [staged   |-> IF bash_script(t) # "None" THEN [st EXCEPT !.script = "template"] ELSE st,
     checkout |-> remove_output(t, co),
     outcome  |-> "ok"]

\* Jumble.setup: super().setup(); the mapping reads kwargs["tests"] and
\* kwargs["class"]; replace(); _create_verbose_script()
Jumble_setup(st, co, kw) ==
    LET base == Tool_setup("jumble", st, co)
    IN  IF ~(kw.tests /\ kw.class) THEN [base EXCEPT !.outcome = "KeyError"]
        ELSE [base EXCEPT !.staged = [@ EXCEPT !.script = "filled", !.verbose = TRUE]]

Pit_setup_GetWithDefault(st, co, kw) ==
    LET base == Tool_setup("pit", st, co)
    IN  [base EXCEPT !.staged = [@ EXCEPT !.script = "filled"]]

\* Pit.setup: super().setup(); the mapping; replace()
Pit_setup(st, co, kw) ==
    LET base == Tool_setup("pit", st, co)
    IN  IF ~(kw.tests /\ kw.class) THEN [base EXCEPT !.outcome = "KeyError"]
        ELSE [base EXCEPT !.staged = [@ EXCEPT !.script = "filled"]]

\* Major.setup: super().setup(); rmtree(".classes_mutated", ignore_errors=True)
Major_setup(st, co) ==
    LET base == Tool_setup("major", st, co)
    IN  [base EXCEPT !.staged = [@ EXCEPT !.classes_mutated = FALSE]]

setup(t, st, co, kw) ==
    CASE t = "judy"   -> Tool_setup("judy", st, co)
      [] t = "jumble" -> Jumble_setup(st, co, kw)
      [] t = "major"  -> Major_setup(st, co)
      [] t = "pit"    -> Pit_setup(st, co, kw)

(***************************************************************************)
(* Tool.get_output: the loop over self.output.  An artifact found is moved *)
(* (shutil.move) to output_dir / outfile.name; the first one missing       *)
(* raises FileNotFoundError, whatever was moved before stays moved.        *)
(***************************************************************************)
ShutilCopy(co, od, outfile) ==
    [checkout |-> co,
     dir      |-> [od EXCEPT ![FileName(outfile)] = co[outfile]]]

\* shutil.move(src, dst): dst holds what src held, src is gone
ShutilMove(co, od, outfile) ==
    [checkout |-> [co EXCEPT ![outfile] = 0],
     dir      |-> [od EXCEPT ![FileName(outfile)] = co[outfile]]]

RECURSIVE GetOutputLoop(_, _, _)
GetOutputLoop(outs, co, od) ==
    IF outs = <<>> THEN [checkout |-> co, dir |-> od, outcome |-> "ok"]
    ELSE IF co[Head(outs)] # 0
    THEN LET moved == ShutilMove(co, od, Head(outs))
         IN  GetOutputLoop(Tail(outs), moved.checkout, moved.dir)
    ELSE [checkout |-> co, dir |-> od, outcome |-> "FileNotFoundError"]

\* os.makedirs(output_dir): the directory and every directory above it
MakeDirs(ds, label) == ds \cup {label, "None"}

get_output(t, co, od) == GetOutputLoop(output(t), co, od)

(***************************************************************************)
(* Tool.get_mutation_score(json_output, subdirectory).                     *)
(***************************************************************************)
\* the file names each _get_mutation_score hands to _get_output_text, in
\* the order it reads them (no name given: self.output[0])
ParserReads(t) ==
    CASE t = "judy"   -> <<output("judy")[1]>>
      [] t = "jumble" -> <<output("jumble")[1]>>
      [] t = "major"  -> <<"kill.csv", "mutants.log">>
      [] t = "pit"    -> <<"mutations.xml">>

\* the subdirectory each _get_mutation_score hands to _get_output_text: none
ParserSubdirectory == "None"

\* Tool._get_output_text(filename, subdirectory): the file of that name in
\* get_output_dir(subdirectory), 0 when output.is_file() is false
Tool_get_output_text(od, filename, subdirectory) == od[subdirectory][filename]

\* what the files read may hold: one report the parser scores, one it rejects
SampleReports(t) ==
    CASE t = "judy" ->
           { <<[name |-> class_under_mutation, mutantsCount |-> 2, mutantsKilledCount |-> 1]>>,
             << >> }
      [] t = "jumble" ->
           { <<"START", "DOT", "LIVE", "END">>, <<"SCORE0">> }
      [] t = "major" ->
           { [kill |-> [no \in {1} |-> "LIVE"], mutants |-> {1, 2, 3}],
             [kill |-> [no \in {1} |-> "LIVE"], mutants |-> {}] }
      [] t = "pit" ->
           { <<[detected |-> "true", nested |-> << >>], [detected |-> "false", nested |-> << >>]>>,
             << >> }

\* the Jumble parser on each of the two transcripts
JumbleSampleScores ==
    [rep \in SampleReports("jumble") |-> Jumble_get_mutation_score(Flatten(rep))]

\* self._get_mutation_score() of the adapter at hand
Tool_get_mutation_score(t, od, rep) ==
    IF \E i \in 1..Len(ParserReads(t)) :
           Tool_get_output_text(od, ParserReads(t)[i], ParserSubdirectory) = 0
    THEN Raise("FileNotFoundError", NoChars, "-")
    ELSE CASE t = "judy"   -> Judy_get_mutation_score(rep)
           [] t = "jumble" -> JumbleSampleScores[rep]
           [] t = "major"  -> Major_get_mutation_score(rep.kill, rep.mutants)
           [] t = "pit"    -> Pit_get_mutation_score(rep)

JsonSuffix == <<".", "j", "s", "o", "n">>

\* str.endswith
EndsWith(str, suffix) ==
    /\ Len(str) >= Len(suffix)
    /\ SubSeq(str, Len(str) - Len(suffix) + 1, Len(str)) = suffix

\* json_output as the caller passes it: None, or a string
NoName == [given |-> FALSE, chars |-> << >>]
PersistNames ==
    { NoName,
      [given |-> TRUE, chars |-> << >>],
      [given |-> TRUE, chars |-> <<"s">>],
      [given |-> TRUE, chars |-> <<"s">> \o JsonSuffix] }

\* "if json_output:" - None and "" are both false
Truthy(json_output) == json_output.given /\ json_output.chars # << >>

\* "if not json_output.endswith(".json"): json_output += ".json""
JsonFileName(chars) ==
    IF ~EndsWith(chars, JsonSuffix) THEN chars \o JsonSuffix ELSE chars

\* open(json_output_path, "w"); json.dump(score_dict, f): the file holds
\* score_dict, whatever it held before
JsonDump(dc, dir, name, score_dict) ==
    { d \in dc : ~(d.dir = dir /\ d.name = name) }
        \cup { [dir |-> dir, name |-> name, content |-> score_dict] }

NoScore == 0 - 1

\* get_mutation_score from "if json_output:" on, score_dict being what
\* self._get_mutation_score() gave (a raise in it leaves the method at once)
WriteScore(score_dict, ds, dc, json_output, output_dir) ==
    IF score_dict.kind = "error"
    THEN [docs |-> dc, outcome |-> score_dict.error, returned |-> NoScore]
    ELSE IF Truthy(json_output)
    THEN IF output_dir \notin ds
         THEN [docs |-> dc, outcome |-> "FileNotFoundError", returned |-> NoScore]
         ELSE [docs |-> JsonDump(dc, output_dir, JsonFileName(json_output.chars), score_dict),
               outcome |-> "ok", returned |-> score_dict.score]
    ELSE [docs |-> dc, outcome |-> "ok", returned |-> score_dict.score]

\* output_dir comes from the subdirectory, score_dict from the parser, which
\* is handed no subdirectory
get_mutation_score(t, od, ds, dc, json_output, subdirectory, rep) ==
    WriteScore(Tool_get_mutation_score(t, od, rep), ds, dc, json_output, subdirectory)

NotScored ==
    [called |-> FALSE, json_output |-> NoName, subdirectory |-> "-", rep |-> << >>,
     parsed |-> << >>, outcome |-> "-", returned |-> NoScore, before |-> {},
     dirs |-> {}]

\* the variables of the other specifications, at rest
NoDir == [exists |-> FALSE, paths |-> {}]

UtilityOff ==
    /\ cwd = "-"
    /\ lastCall = [op |-> "none"]

TestsOff ==
    /\ test_dir = NoDir
    /\ backup = NoDir
    /\ fsCall = [op |-> "none"]
    /\ trip = [stage |-> "none", original |-> {}]

DriverOff ==
    /\ driver = [status |-> "off"]
    /\ events = << >>
    /\ active = {}

ProjectOff ==
    /\ UtilityOff
    /\ TestsOff
    /\ DriverOff

(***************************************************************************)
(* The lifecycle specification: one adapter, its calls in any order.       *)
(***************************************************************************)
NoFiles(t) == [a \in Artifacts(t) |-> 0]
EmptyDir(t) == [n \in { FileName(a) : a \in Artifacts(t) } |-> 0]

InitTool ==
    /\ engine = "-" /\ report = <<>> /\ text = NoChars
    /\ result = NoResult /\ pc = "off"
    /\ tool \in ToolNames
    /\ checkout = NoFiles(tool)
    /\ outdir = [l \in Labels |-> EmptyDir(tool)]
    /\ dirs = {}
    /\ staged = NothingStaged
    /\ runs = 0
    /\ last = NoCall(NoFiles(tool))
    /\ collected = FALSE
    /\ retry = Idle
    /\ docs = {}
    /\ scored = NotScored
    /\ ProjectOff

Setup(kw) ==
    LET done == setup(tool, staged, checkout, kw)
    IN  /\ staged' = done.staged
        /\ checkout' = done.checkout
        /\ last' = [op |-> "setup", label |-> "-", outcome |-> done.outcome,
                    before |-> checkout, again |-> collected, kw |-> kw]
        /\ retry' = IF done.outcome = "ok"
                    THEN [stage |-> "setup", afterFailure |-> FailedOnEmpty(last)]
                    ELSE Idle
        /\ scored' = NotScored
        /\ UNCHANGED <<tool, outdir, dirs, runs, collected, docs>>
        /\ UNCHANGED parserVars
        /\ UNCHANGED projectVars

\* Tool.run / Major.run: the engine runs to its end and writes the
\* artifacts in written, all of them, some or none; the call returns
\* the process result uninterpreted.  Without launcher script in the
\* checkout bash has nothing to run.
Run(written) ==
    /\ runs < MaxRuns
    /\ (bash_script(tool) # "None" /\ staged.script = "none") => written = {}
    /\ runs' = runs + 1
    /\ checkout' = [a \in DOMAIN checkout |-> IF a \in written THEN runs + 1 ELSE checkout[a]]
    /\ staged' = IF tool = "major" THEN [staged EXCEPT !.classes_mutated = TRUE] ELSE staged
    /\ last' = [op |-> "run", label |-> "-", outcome |-> "ok",
                before |-> checkout, again |-> collected, kw |-> NoKw]
    /\ collected' = FALSE
    /\ retry' = IF retry.stage = "setup" /\ written = Artifacts(tool)
                THEN [retry EXCEPT !.stage = "ran"]
                ELSE Idle
    /\ scored' = NotScored
    /\ UNCHANGED <<tool, outdir, dirs, docs>>
    /\ UNCHANGED parserVars
    /\ UNCHANGED projectVars

GetOutput(label) ==
    LET done == get_output(tool, checkout, outdir[label])
    IN  /\ dirs' = MakeDirs(dirs, label)
        /\ checkout' = done.checkout
        /\ outdir' = [outdir EXCEPT ![label] = done.dir]
        /\ last' = [op |-> "get_output", label |-> label, outcome |-> done.outcome,
                    before |-> checkout, again |-> collected, kw |-> NoKw]
        /\ collected' = (collected \/ done.outcome = "ok")
        /\ retry' = IF retry.stage = "ran" THEN [retry EXCEPT !.stage = "collected"] ELSE Idle
        /\ scored' = NotScored
        /\ UNCHANGED <<tool, staged, runs, docs>>
        /\ UNCHANGED parserVars
        /\ UNCHANGED projectVars

\* get_mutation_score: the parser reads the collected files, which hold rep
\* what a call of get_mutation_score leaves behind, done being its result
Scored(done, json_output, subdirectory, rep) ==
    /\ docs' = done.docs
    /\ scored' = [called |-> TRUE, json_output |-> json_output,
                  subdirectory |-> subdirectory, rep |-> rep,
                  parsed |-> [i \in 1..Len(ParserReads(tool)) |->
                                Tool_get_output_text(outdir, ParserReads(tool)[i],
                                                     ParserSubdirectory)],
                  outcome |-> done.outcome, returned |-> done.returned,
                  before |-> docs, dirs |-> dirs]
    /\ last' = [op |-> "get_mutation_score", label |-> subdirectory,
                outcome |-> done.outcome, before |-> checkout, again |-> collected,
                kw |-> NoKw]
    /\ retry' = Idle
    /\ UNCHANGED <<tool, checkout, outdir, dirs, staged, runs, collected>>
    /\ UNCHANGED parserVars
    /\ UNCHANGED projectVars

GetMutationScore(json_output, subdirectory, rep) ==
    Scored(get_mutation_score(tool, outdir, dirs, docs, json_output, subdirectory, rep),
           json_output, subdirectory, rep)

KwArgs == [tests : BOOLEAN, class : BOOLEAN]

NextTool ==
    \/ \E kw \in KwArgs : Setup(kw)
    \/ \E written \in SUBSET Artifacts(tool) : Run(written)
    \/ \E label \in Labels : GetOutput(label)
    \/ \E json_output \in PersistNames, subdirectory \in Labels, rep \in SampleReports(tool) :
           GetMutationScore(json_output, subdirectory, rep)

SpecTool == InitTool /\ [][NextTool]_vars

(***************************************************************************)
(* The parser specification.                                               *)
(***************************************************************************)
InitJudy ==
    /\ engine = "judy"
    /\ report \in JudyReports
    /\ text = NoChars

InitMajor ==
    /\ engine = "major"
    /\ report \in MajorReports
    /\ text = NoChars

InitPit ==
    /\ engine = "pit"
    /\ report \in PitReports
    /\ text = NoChars

InitJumble ==
    /\ engine = "jumble"
    /\ report \in JumbleReports
    /\ text = Flatten(report)

InitParsers ==
    /\ \/ InitJudy
       \/ InitJumble
       \/ InitMajor
       \/ InitPit
    /\ result = NoResult
    /\ pc = "ready"
    /\ tool = "-"
    /\ checkout = <<>>
    /\ outdir = <<>>
    /\ dirs = {}
    /\ staged = NothingStaged
    /\ runs = 0
    /\ last = NoCall(<<>>)
    /\ collected = FALSE
    /\ retry = Idle
    /\ docs = {}
    /\ scored = NotScored
    /\ ProjectOff

JudyParse ==
    /\ pc = "ready" /\ engine = "judy"
    /\ result' = Judy_get_mutation_score(report)
    /\ pc' = "done"
    /\ UNCHANGED <<engine, report, text>>
    /\ UNCHANGED toolVars
    /\ UNCHANGED projectVars

MajorParse ==
    /\ pc = "ready" /\ engine = "major"
    /\ result' = Major_get_mutation_score(report.kill, report.mutants)
    /\ pc' = "done"
    /\ UNCHANGED <<engine, report, text>>
    /\ UNCHANGED toolVars
    /\ UNCHANGED projectVars

PitParse ==
    /\ pc = "ready" /\ engine = "pit"
    /\ result' = Pit_get_mutation_score(report)
    /\ pc' = "done"
    /\ UNCHANGED <<engine, report, text>>
    /\ UNCHANGED toolVars
    /\ UNCHANGED projectVars

JumbleParse ==
    /\ pc = "ready" /\ engine = "jumble"
    /\ result' = Jumble_get_mutation_score(text)
    /\ pc' = "done"
    /\ UNCHANGED <<engine, report, text>>
    /\ UNCHANGED toolVars
    /\ UNCHANGED projectVars

NextParsers ==
    \/ JudyParse
    \/ JumbleParse
    \/ MajorParse
    \/ PitParse

SpecParsers == InitParsers /\ [][NextParsers]_vars

(***************************************************************************)
(* utility.py and the registry of tools.py: defects4j_cmd,                 *)
(* test_environment, defects4j_cmd_dirpath, Project.get_tests, get_tool,   *)
(* get_all_tools.                                                          *)
(***************************************************************************)
possible_cmds ==
    <<"bids", "checkout", "compile", "coverage", "env", "export", "info",
      "monitor.test", "mutation", "pids", "query", "test">>

\* subprocess.run was not reached
NotRun == << >>

defects4j_cmd_NoAssert(cmd, args, installed) ==
    LET command == <<"defects4j">> \o (IF cmd # "" THEN <<cmd>> ELSE << >>) \o args
    IN  IF installed THEN [outcome |-> "ok", ran |-> command]
        ELSE [outcome |-> "FileNotFoundError", ran |-> command]

\* defects4j_cmd(cmd, *args): installed tells whether PATH holds defects4j;
\* ran is the command subprocess.run was called with.  "if cmd:" skips
\* check and subcommand for the empty string.
defects4j_cmd(cmd, args, installed) ==
    IF cmd # "" /\ cmd \notin Range(possible_cmds)
    THEN [outcome |-> "AssertionError", ran |-> NotRun]
    ELSE LET command == <<"defects4j">> \o (IF cmd # "" THEN <<cmd>> ELSE << >>) \o args
         IN  IF installed THEN [outcome |-> "ok", ran |-> command]
             ELSE [outcome |-> "FileNotFoundError", ran |-> command]

\* test_environment(): defects4j_cmd() with no subcommand
test_environment(installed) ==
    LET tried == defects4j_cmd("", << >>, installed)
    IN  IF tried.outcome = "FileNotFoundError"
        THEN [tried EXCEPT !.outcome = "EnvironmentError"]
        ELSE tried

\* pathlib.Path(project_dir).resolve(): "." is the working directory
Resolve(wd, path) == IF path = "." THEN wd ELSE path

\* os.chdir(old_path) once the command has returned
ChdirBack(old_path) == old_path

\* defects4j_cmd_dirpath(project_dir, command, *args): exists tells whether
\* project_dir is a directory
defects4j_cmd_dirpath(wd, project_dir, exists, command, args, installed) ==
    LET old_path   == wd
        new_path   == Resolve(wd, project_dir)
        change_dir == old_path # new_path
    IN  IF change_dir /\ ~exists
        THEN [cwd |-> wd, outcome |-> "FileNotFoundError", ran |-> NotRun]
        ELSE LET inside == IF change_dir THEN new_path ELSE wd
                 cmd    == defects4j_cmd(command, args, installed)
             IN  IF cmd.outcome # "ok"
                 THEN [cwd |-> inside, outcome |-> cmd.outcome, ran |-> cmd.ran]
                 ELSE [cwd |-> IF change_dir THEN ChdirBack(old_path) ELSE inside,
                       outcome |-> "ok", ran |-> cmd.ran]

get_tests_StaysInTestDir(wd, tdir, exists, java_files) ==
    IF ~exists
    THEN [cwd |-> wd, outcome |-> "FileNotFoundError", found |-> {}]
    ELSE [cwd |-> tdir, outcome |-> "ok", found |-> java_files]

\* Project.get_tests(): chdir(tdir), rglob("*.java"), chdir(cwd);
\* found is what rglob lists
get_tests(wd, tdir, exists, java_files) ==
    LET old_cwd == wd
    IN  IF ~exists
        THEN [cwd |-> wd, outcome |-> "FileNotFoundError", found |-> {}]
        ELSE [cwd |-> old_cwd, outcome |-> "ok", found |-> java_files]

\* the four subclasses of Tool and the name attribute of each
ToolClasses == <<"Judy", "Jumble", "Major", "Pit">>

NameOf(cls) ==
    CASE cls = "Judy"   -> "judy"
      [] cls = "Jumble" -> "jumble"
      [] cls = "Major"  -> "major"
      [] cls = "Pit"    -> "pit"

\* Cls(project_dir, class_under_mutation)
Construct(cls, project_dir, cum) ==
    [class |-> cls, project_dir |-> project_dir, class_under_mutation |-> cum]

NoAdapter == Construct("None", "-", "-")

\* the dict valid_tools, as its items in insertion order
valid_tools(project_dir, cum) ==
    [i \in 1..Len(ToolClasses) |->
        [key |-> NameOf(ToolClasses[i]), value |-> Construct(ToolClasses[i], project_dir, cum)]]

Keys(items) == [i \in 1..Len(items) |-> items[i].key]

get_tool_FallsBackToFirst(tool_name, project_dir, cum) ==
    LET items == valid_tools(project_dir, cum)
    IN  IF tool_name \notin Range(Keys(items))
        THEN [outcome |-> "ok", listed |-> << >>, returned |-> items[1].value]
        ELSE [outcome |-> "ok", listed |-> << >>,
              returned |-> items[CHOOSE i \in 1..Len(items) : items[i].key = tool_name].value]

\* get_tool(tool_name, project_dir, class_under_mutation); listed is the
\* list of names the message of the ValueError carries
get_tool(tool_name, project_dir, cum) ==
    LET items == valid_tools(project_dir, cum)
    IN  IF tool_name \notin Range(Keys(items))
        THEN [outcome |-> "ValueError", listed |-> Keys(items), returned |-> NoAdapter]
        ELSE [outcome |-> "ok", listed |-> << >>,
              returned |-> items[CHOOSE i \in 1..Len(items) : items[i].key = tool_name].value]

\* get_all_tools(project_dir, class_under_mutation)
get_all_tools(project_dir, cum) ==
    [i \in 1..Len(ToolClasses) |-> get_tool(NameOf(ToolClasses[i]), project_dir, cum).returned]

(***************************************************************************)
(* The utility specification: the calls in any order, in one process.      *)
(***************************************************************************)
WorkDirs == {"/home", "/proj", "/proj/src/test"}
ProjectDirs == {"/proj", "/other", "."}
Subcommands == Range(possible_cmds) \cup {"", "clean", "Test"}
ArgLists == {<< >>, <<"-w">>}
RequestedNames == ToolNames \cup {"", "Judy", "pitest", "all"}
JavaFiles == {"pkg/TargetTest.java", "pkg/sub/OtherTest.java"}

\* the variables of the adapter specifications, at rest
AdaptersOff ==
    /\ engine = "-" /\ report = << >> /\ text = NoChars
    /\ result = NoResult /\ pc = "off"
    /\ tool = "-"
    /\ checkout = << >>
    /\ outdir = << >>
    /\ dirs = {}
    /\ staged = NothingStaged
    /\ runs = 0
    /\ last = NoCall(<< >>)
    /\ collected = FALSE
    /\ retry = Idle
    /\ docs = {}
    /\ scored = NotScored

UtilityFrame == UNCHANGED <<parserVars, toolVars, testsVars, driverVars>>

InitUtility ==
    /\ AdaptersOff
    /\ TestsOff
    /\ DriverOff
    /\ cwd \in WorkDirs
    /\ lastCall = [op |-> "none"]

Defects4jCmd(cmd, args, installed) ==
    LET done == defects4j_cmd(cmd, args, installed)
    IN  /\ lastCall' = [op |-> "defects4j_cmd", cmd |-> cmd, args |-> args,
                        installed |-> installed, before |-> cwd,
                        outcome |-> done.outcome, ran |-> done.ran]
        /\ UNCHANGED cwd
        /\ UtilityFrame

TestEnvironment(installed) ==
    LET done == test_environment(installed)
    IN  /\ lastCall' = [op |-> "test_environment", cmd |-> "", args |-> << >>,
                        installed |-> installed, before |-> cwd,
                        outcome |-> done.outcome, ran |-> done.ran]
        /\ UNCHANGED cwd
        /\ UtilityFrame

Defects4jCmdDirpath(project_dir, exists, cmd, args, installed) ==
    LET done == defects4j_cmd_dirpath(cwd, project_dir, exists, cmd, args, installed)
    IN  /\ cwd' = done.cwd
        /\ lastCall' = [op |-> "defects4j_cmd_dirpath", cmd |-> cmd, args |-> args,
                        installed |-> installed, before |-> cwd,
                        outcome |-> done.outcome, ran |-> done.ran,
                        project_dir |-> project_dir, exists |-> exists]
        /\ UtilityFrame

GetTests(tdir, exists, java_files) ==
    LET done == get_tests(cwd, tdir, exists, java_files)
    IN  /\ cwd' = done.cwd
        /\ lastCall' = [op |-> "get_tests", before |-> cwd, outcome |-> done.outcome,
                        test_dir |-> tdir, exists |-> exists, found |-> done.found]
        /\ UtilityFrame

GetTool(tool_name, project_dir, cum) ==
    LET done == get_tool(tool_name, project_dir, cum)
    IN  /\ lastCall' = [op |-> "get_tool", before |-> cwd, outcome |-> done.outcome,
                        tool_name |-> tool_name, project_dir |-> project_dir,
                        class_under_mutation |-> cum,
                        listed |-> done.listed, returned |-> done.returned]
        /\ UNCHANGED cwd
        /\ UtilityFrame

GetAllTools(project_dir, cum) ==
    /\ lastCall' = [op |-> "get_all_tools", before |-> cwd, outcome |-> "ok",
                    project_dir |-> project_dir, class_under_mutation |-> cum,
                    returned |-> get_all_tools(project_dir, cum)]
    /\ UNCHANGED cwd
    /\ UtilityFrame

NextUtility ==
    \/ \E cmd \in Subcommands, args \in ArgLists, installed \in BOOLEAN :
           Defects4jCmd(cmd, args, installed)
    \/ \E installed \in BOOLEAN : TestEnvironment(installed)
    \/ \E project_dir \in ProjectDirs, exists \in BOOLEAN, cmd \in Subcommands,
          args \in ArgLists, installed \in BOOLEAN :
           Defects4jCmdDirpath(project_dir, exists, cmd, args, installed)
    \/ \E exists \in BOOLEAN, java_files \in SUBSET JavaFiles :
           GetTests("/proj/src/test", exists, java_files)
    \/ \E tool_name \in RequestedNames, project_dir \in ProjectDirs, cum \in ClassNames :
           GetTool(tool_name, project_dir, cum)
    \/ \E project_dir \in ProjectDirs, cum \in ClassNames : GetAllTools(project_dir, cum)

SpecUtility == InitUtility /\ [][NextUtility]_vars

(***************************************************************************)
(* project.py: backup_tests, restore_tests, _set_dir_testsuite.  A         *)
(* directory is [exists, paths]; paths holds every file and directory      *)
(* below it, each as the sequence of its path components.                  *)
(***************************************************************************)
default_backup_tests == "dev_backup"

\* full_test_dir below test_dir (the package of the relevant class), the
\* file of test_class, and the files test_classes names
PackagePath == <<"pkg">>
TestClassFile == <<"pkg", "TargetTest.java">>
RelevantTests == <<TestClassFile>>

\* the developer tests of a fresh checkout
DevTests ==
    { <<"pkg">>, <<"pkg", "TargetTest.java">>, <<"util">>, <<"util", "HelperTest.java">> }

\* the java files of the tool's suite directory (dirpath), by name, and the
\* characters of each name
SuiteFiles == {"a_b_G1.java", "c_d_G2.java"}

FileChars(f) ==
    IF f = "a_b_G1.java"
    THEN <<"a", "_", "b", "_", "G", "1", ".", "j", "a", "v", "a">>
    ELSE <<"c", "_", "d", "_", "G", "2", ".", "j", "a", "v", "a">>

\* str.upper(), on the characters a group name is made of
UpperChar(c) == IF c = "g" THEN "G" ELSE c
Upper(str) == [i \in 1..Len(str) |-> UpperChar(str[i])]

\* fnmatch of "*" + sub + "*"
IsSubstring(sub, str) ==
    \E i \in 1..(Len(str) - Len(sub) + 1) : SubSeq(str, i, i + Len(sub) - 1) = sub

\* pathlib.Path(dirpath).glob(f"*{students}*")
Glob(students) == { f \in SuiteFiles : IsSubstring(students, FileChars(f)) }

\* every directory on the way to path, path included
Ancestors(path) == { SubSeq(path, 1, n) : n \in 1..Len(path) }

\* os.makedirs(test_dir / path, exist_ok=True)
MakeTestDirs(d, path) == [exists |-> TRUE, paths |-> d.paths \cup Ancestors(path)]

\* shutil.copy(file, test_dir / path)
CopyInto(d, path, name) == [d EXCEPT !.paths = @ \cup {path \o <<name>>}]

\* shutil.rmtree(dir, ignore_errors=True)
Rmtree(d) == NoDir

\* shutil.move(src, dst) of a directory named name: renamed to dst when there
\* is no dst, moved into dst under its own name when dst is a directory
ShutilMoveDir(src, name, dst) ==
    IF ~src.exists
    THEN [src |-> src, dst |-> dst, outcome |-> "FileNotFoundError"]
    ELSE IF ~dst.exists
    THEN [src |-> NoDir, dst |-> src, outcome |-> "ok"]
    ELSE IF <<name>> \in dst.paths
    THEN [src |-> src, dst |-> dst, outcome |-> "shutil.Error"]
    ELSE [src |-> NoDir,
          dst |-> [dst EXCEPT !.paths = @ \cup {<<name>>}
                                           \cup { <<name>> \o p : p \in src.paths }],
          outcome |-> "ok"]

\* Project.backup_tests()
backup_tests(td, bk) ==
    IF bk.exists
    THEN [test_dir |-> td, backup |-> bk, outcome |-> "ok"]
    ELSE LET moved == ShutilMoveDir(td, "test", bk)
         IN  [test_dir |-> moved.src, backup |-> moved.dst, outcome |-> moved.outcome]

\* Project.restore_tests()
restore_tests(td, bk) ==
    LET moved == ShutilMoveDir(bk, default_backup_tests, td)
    IN  [test_dir |-> moved.dst, backup |-> moved.src, outcome |-> moved.outcome]

\* the group part of _set_dir_testsuite (not no_groups); td is test_dir
\* after the first rmtree
SetGroupSuite(td, group) ==
    IF ~group.given
    THEN \* shutil.copytree(dirpath, full_test_dir)
         [test_dir |-> [exists |-> TRUE,
                        paths  |-> Ancestors(PackagePath)
                                     \cup { PackagePath \o <<f>> : f \in SuiteFiles }],
          outcome |-> "ok"]
    ELSE LET students == Upper(group.chars)
             fnames   == Glob(students)
         IN  IF Cardinality(fnames) = 0
             THEN [test_dir |-> td, outcome |-> "AssertionError"]
             ELSE IF Cardinality(fnames) # 1
             THEN [test_dir |-> td, outcome |-> "AssertionError"]
             ELSE LET fname == CHOOSE f \in fnames : TRUE
                  IN  [test_dir |-> CopyInto(MakeTestDirs(Rmtree(td), PackagePath),
                                             PackagePath, fname),
                       outcome |-> "ok"]

\* the developer-tests part of _set_dir_testsuite
RECURSIVE CopyRelevant(_, _, _)
CopyRelevant(td, bk, tests) ==
    IF tests = << >> THEN [test_dir |-> td, outcome |-> "ok"]
    ELSE LET testfile == Head(tests)
             parent   == SubSeq(testfile, 1, Len(testfile) - 1)
             made     == MakeTestDirs(td, parent)
         IN  IF ~(bk.exists /\ testfile \in bk.paths)
             THEN [test_dir |-> made, outcome |-> "FileNotFoundError"]
             ELSE CopyRelevant(CopyInto(made, parent, testfile[Len(testfile)]), bk, Tail(tests))

AddDevTests(td, bk, opts) ==
    IF opts.with_dev
    THEN IF bk.exists
         THEN \* copytree(dev_test, test_dir, dirs_exist_ok=True); the log line
              \* then reads dst, a local bound only in the group part
              [test_dir |-> [exists |-> TRUE, paths |-> td.paths \cup bk.paths],
               outcome  |-> IF opts.no_groups THEN "UnboundLocalError" ELSE "ok"]
         ELSE [test_dir |-> td, outcome |-> "ok"]
    ELSE IF opts.with_single_dev
    THEN LET made == MakeTestDirs(td, PackagePath)
         IN  IF ~(bk.exists /\ TestClassFile \in bk.paths)
             THEN [test_dir |-> made, outcome |-> "FileNotFoundError"]
             ELSE [test_dir |-> CopyInto(made, PackagePath, TestClassFile[Len(TestClassFile)]),
                   outcome |-> "ok"]
    ELSE IF opts.with_relevant_dev
    THEN CopyRelevant(MakeTestDirs(td, << >>), bk, RelevantTests)
    ELSE [test_dir |-> td, outcome |-> "ok"]

\* Project._set_dir_testsuite(dirpath, **kwargs)
set_dir_testsuite(td, bk, opts) ==
    LET cleared == Rmtree(td)
        grouped == IF ~opts.no_groups THEN SetGroupSuite(cleared, opts.group)
                   ELSE [test_dir |-> cleared, outcome |-> "ok"]
    IN  IF grouped.outcome # "ok"
        THEN [test_dir |-> grouped.test_dir, backup |-> bk, outcome |-> grouped.outcome]
        ELSE LET dev == AddDevTests(grouped.test_dir, bk, opts)
             IN  [test_dir |-> dev.test_dir, backup |-> bk, outcome |-> dev.outcome]

(***************************************************************************)
(* The test-suite specification: a fresh checkout, the three calls in any  *)
(* order.                                                                  *)
(***************************************************************************)
Groups ==
    { [given |-> FALSE, chars |-> << >>],
      [given |-> TRUE, chars |-> <<"g", "1">>],
      [given |-> TRUE, chars |-> <<"g">>],
      [given |-> TRUE, chars |-> <<"g", "9">>] }

SwapOptions ==
    [no_groups : BOOLEAN, group : Groups, with_dev : BOOLEAN,
     with_single_dev : BOOLEAN, with_relevant_dev : BOOLEAN]

TestsFrame == UNCHANGED <<parserVars, toolVars, utilVars, driverVars>>

InitTests ==
    /\ AdaptersOff
    /\ UtilityOff
    /\ DriverOff
    /\ test_dir = [exists |-> TRUE, paths |-> DevTests]
    /\ backup = NoDir
    /\ fsCall = [op |-> "none"]
    /\ trip = [stage |-> "none", original |-> {}]

BackupTests ==
    LET done == backup_tests(test_dir, backup)
    IN  /\ test_dir' = done.test_dir
        /\ backup' = done.backup
        /\ fsCall' = [op |-> "backup_tests", outcome |-> done.outcome,
                      test_before |-> test_dir, backup_before |-> backup]
        /\ trip' = IF done.outcome = "ok"
                   THEN [stage |-> "backed", original |-> done.backup.paths]
                   ELSE [stage |-> "none", original |-> {}]
        /\ TestsFrame

RestoreTests ==
    /\ \A p \in backup.paths : Len(p) < MaxPathLen
    /\ LET done == restore_tests(test_dir, backup)
       IN  /\ test_dir' = done.test_dir
           /\ backup' = done.backup
           /\ fsCall' = [op |-> "restore_tests", outcome |-> done.outcome,
                         test_before |-> test_dir, backup_before |-> backup]
           /\ trip' = IF trip.stage = "backed" /\ done.outcome = "ok"
                      THEN [trip EXCEPT !.stage = "restored"]
                      ELSE [stage |-> "none", original |-> {}]
           /\ TestsFrame

SetDirTestsuite(opts) ==
    LET done == set_dir_testsuite(test_dir, backup, opts)
    IN  /\ test_dir' = done.test_dir
        /\ backup' = done.backup
        /\ fsCall' = [op |-> "set_dir_testsuite", outcome |-> done.outcome,
                      test_before |-> test_dir, backup_before |-> backup]
        /\ trip' = IF trip.stage = "backed" THEN trip ELSE [stage |-> "none", original |-> {}]
        /\ TestsFrame

NextTests ==
    \/ BackupTests
    \/ RestoreTests
    \/ \E opts \in SwapOptions : SetDirTestsuite(opts)

SpecTests == InitTests /\ [][NextTests]_vars

(***************************************************************************)
(* project.py: the batch drivers get_mutation_scores, run_tools and        *)
(* get_mutants.  Each is a straight sequence of calls, some before the     *)
(* loop over the tools, the others once per tool; no call is made inside a *)
(* try block.                                                              *)
(***************************************************************************)
Modes == {"get_mutation_scores", "run_tools", "get_mutants"}

\* the calls between "if not tools: return" and the loop
BeforeLoop(mode) ==
    CASE mode = "get_mutation_scores" -> <<"backup_tests">>
      [] mode = "run_tools"           -> << >>
      [] mode = "get_mutants"         -> <<"set_testsuite", "clean", "compile">>

PerTool_SetupBeforeCompile(mode, t) ==
    CASE mode = "get_mutation_scores" ->
           <<"clean", "setup", "set_testsuite", "compile">>
             \o (IF t = "jumble" THEN <<"get_tests">> ELSE << >>)
             \o <<"run", "get_output", "get_mutation_score">>
      [] mode = "run_tools" ->
           <<"clean", "setup", "set_testsuite", "compile">>
             \o (IF t = "jumble" THEN <<"get_tests">> ELSE << >>)
             \o <<"run", "get_output">>
      [] mode = "get_mutants" -> <<"setup", "run", "get_output">>

\* the calls of one pass of the loop, for tool t
PerTool(mode, t) ==
    CASE mode = "get_mutation_scores" ->
           <<"clean", "set_testsuite", "compile">>
             \o (IF t = "jumble" THEN <<"get_tests">> ELSE << >>)
             \o <<"setup", "run", "get_output", "get_mutation_score">>
      [] mode = "run_tools" ->
           <<"clean", "set_testsuite", "compile">>
             \o (IF t = "jumble" THEN <<"get_tests">> ELSE << >>)
             \o <<"setup", "run", "get_output">>
      [] mode = "get_mutants" -> <<"setup", "run", "get_output">>

Tagged(idx, stages) == [i \in 1..Len(stages) |-> [idx |-> idx, stage |-> stages[i]]]

RECURSIVE LoopBody(_, _, _)
LoopBody(mode, tools, idx) ==
    IF idx > Len(tools) THEN << >>
    ELSE Tagged(idx, PerTool(mode, tools[idx])) \o LoopBody(mode, tools, idx + 1)

\* the calls of a whole run, in order; none for an empty tool list
Program(mode, tools) ==
    IF tools = << >> THEN << >>
    ELSE Tagged(0, BeforeLoop(mode)) \o LoopBody(mode, tools, 1)

\* whether the call can raise: clean guards its rmtree, and run goes through
\* subprocess.run of bash except for Major, which calls defects4j
Raising(stage, t) ==
    CASE stage = "clean" -> FALSE
      [] stage = "run"   -> t = "major"
      [] OTHER           -> TRUE

\* where control goes when the call at position pos raises: out of the method
OnRaise(program, pos) == [pc |-> Len(program) + 1, status |-> "raised"]

\* where control goes when the call at position pos returns
OnReturn(program, pos) ==
    [pc |-> pos + 1, status |-> IF pos = Len(program) THEN "returned" ELSE "running"]

(***************************************************************************)
(* The driver specification: one driver method on a batch of tools.        *)
(***************************************************************************)
Batches == SeqsUpTo(ToolNames, MaxBatch)

DriverFrame == UNCHANGED <<parserVars, toolVars, utilVars, testsVars>>

InitDriver ==
    /\ AdaptersOff
    /\ UtilityOff
    /\ TestsOff
    /\ \E mode \in Modes, tools \in Batches :
          driver = [mode |-> mode, tools |-> tools, pc |-> 1,
                    status |-> IF Program(mode, tools) = << >> THEN "returned" ELSE "running"]
    /\ events = << >>
    /\ active = {}

Current == Program(driver.mode, driver.tools)[driver.pc]
CurrentTool == IF Current.idx = 0 THEN "-" ELSE driver.tools[Current.idx]

\* the call at hand is the last one made for its tool
LastOfTool ==
    \/ driver.pc = Len(Program(driver.mode, driver.tools))
    \/ Program(driver.mode, driver.tools)[driver.pc + 1].idx # Current.idx

StageReturns ==
    /\ driver.status = "running"
    /\ LET to == OnReturn(Program(driver.mode, driver.tools), driver.pc)
       IN  driver' = [driver EXCEPT !.pc = to.pc, !.status = to.status]
    /\ events' = Append(events, [idx |-> Current.idx, stage |-> Current.stage, outcome |-> "ok"])
    /\ active' = IF LastOfTool THEN active \ {Current.idx}
                 ELSE IF Current.stage = "setup" THEN active \cup {Current.idx}
                 ELSE active
    /\ DriverFrame

StageRaises ==
    /\ driver.status = "running"
    /\ Raising(Current.stage, CurrentTool)
    /\ LET to == OnRaise(Program(driver.mode, driver.tools), driver.pc)
       IN  driver' = [driver EXCEPT !.pc = to.pc, !.status = to.status]
    /\ events' = Append(events, [idx |-> Current.idx, stage |-> Current.stage, outcome |-> "raised"])
    /\ active' = active \ {Current.idx}
    /\ DriverFrame

NextDriver ==
    \/ StageReturns
    \/ StageRaises

SpecDriver == InitDriver /\ [][NextDriver]_vars

(***************************************************************************)
(* What a report says, read off its structure (not off the parser).        *)
(***************************************************************************)
Count(seq, val) == Cardinality({ i \in 1..Len(seq) : seq[i] = val })

IndexFrom(seq, val, from) ==
    LET at == { i \in from..Len(seq) : seq[i] = val }
    IN  IF at = {} THEN 0 ELSE Min(at)

\* the lexemes strictly between the first start marker line and the first
\* end marker line behind it
StartIndex(lexemes) == IndexFrom(lexemes, "START", 1)
EndIndex(lexemes) ==
    IF StartIndex(lexemes) = 0 THEN 0
    ELSE IndexFrom(lexemes, "END", StartIndex(lexemes) + 1)
HasMarkers(lexemes) == StartIndex(lexemes) # 0 /\ EndIndex(lexemes) # 0
RegionOf(lexemes) == SubSeq(lexemes, StartIndex(lexemes) + 1, EndIndex(lexemes) - 1)

\* the region lists live-mutant lines and dots, separated by whitespace
RegionListsMutants(lexemes) ==
    /\ HasMarkers(lexemes)
    /\ \A i \in 1..Len(RegionOf(lexemes)) : RegionOf(lexemes)[i] \in {"LIVE", "DOT", "NL"}

JudyTargets(classes) == { i \in 1..Len(classes) : classes[i].name = class_under_mutation }
JudyTarget(classes) == classes[CHOOSE i \in JudyTargets(classes) : TRUE]

PitWellFormed(tree) == \A i \in 1..Len(tree) : tree[i].detected \in DetectedValues

\* the report describes no mutant at all
DescribesNoMutants ==
    \/ /\ engine = "judy"
       /\ Cardinality(JudyTargets(report)) = 1
       /\ JudyTarget(report).mutantsCount = 0
    \/ /\ engine = "jumble"
       /\ RegionListsMutants(report)
       /\ Count(RegionOf(report), "LIVE") = 0
       /\ Count(RegionOf(report), "DOT") = 0
    \/ /\ engine = "major"
       /\ report.mutants = {}
    \/ /\ engine = "pit"
       /\ report = <<>>

Returned == pc = "done" /\ result.kind = "record"

(***************************************************************************)
(* C1: whenever one of the four parsers returns a score record, the record *)
(* satisfies killed + live = all.                                          *)
(***************************************************************************)
C1_KilledPlusLiveIsAll ==
    Returned => result.killed + result.live = result.all

C1_Witness ==
    /\ Returned /\ engine = "jumble"
    /\ result.killed >= 1 /\ result.live >= 1

(***************************************************************************)
(* C2: a report that describes zero mutants yields a record with score = 0 *)
(* and score_full = 0; no parser fails with a division by zero on it.      *)
(* Violated: only Major's empty-kill-table branch returns; every other     *)
(* path divides by all_count = 0.                                          *)
(***************************************************************************)
C2_NoMutantsScoreZero ==
    (pc = "done" /\ DescribesNoMutants) =>
        /\ result.kind = "record"
        /\ result.score = 0
        /\ result.score_full[1] = 0

\* the one path on which all = 0 is returned: Major with an empty kill table
C2_OnlyMajorEmptyReturnsZero ==
    (Returned /\ result.all = 0) => (engine = "major" /\ DOMAIN report.kill = {})

(***************************************************************************)
(* C3: Judy.  Exactly one entry named like the class under mutation: the   *)
(* record has all = mutantsCount, killed = mutantsKilledCount, live = all  *)
(* - killed of that entry; no entry or several: AssertionError, no record. *)
(* Violated only where mutantsCount = 0 (the division of C2).              *)
(***************************************************************************)
JudyExpected ==
    IF Cardinality(JudyTargets(report)) = 1
    THEN /\ result.kind = "record"
         /\ result.all = JudyTarget(report).mutantsCount
         /\ result.killed = JudyTarget(report).mutantsKilledCount
         /\ result.live = result.all - result.killed
    ELSE /\ result.kind = "error"
         /\ result.error = "AssertionError"

C3_JudySingleMatch ==
    (pc = "done" /\ engine = "judy") => JudyExpected

\* C3 apart from the reports C2 is about: it holds wherever the matching
\* entry counts at least one mutant
C3_JudySingleMatchNonEmpty ==
    (pc = "done" /\ engine = "judy" /\ ~DescribesNoMutants) => JudyExpected

(***************************************************************************)
(* C4: Jumble.  In a transcript with the start marker line and, behind it, *)
(* the end marker line, live is the number of live-mutant lines and killed *)
(* the number of dots (killed-mutant marks) between the two, wherever the  *)
(* dots stand; nothing before or after the markers counts.                 *)
(* Violated only where the region lists no mutant (the division of C2).    *)
(***************************************************************************)
JumbleExpected ==
    /\ result.kind = "record"
    /\ result.live = Count(RegionOf(report), "LIVE")
    /\ result.killed = Count(RegionOf(report), "DOT")

C4_JumbleCounts ==
    (pc = "done" /\ engine = "jumble" /\ RegionListsMutants(report)) => JumbleExpected

\* C4 apart from the transcripts C2 is about
C4_JumbleCountsNonEmpty ==
    (pc = "done" /\ engine = "jumble" /\ RegionListsMutants(report)
        /\ ~DescribesNoMutants) => JumbleExpected

(***************************************************************************)
(* C5: Jumble.  A transcript without start marker but with a line          *)
(* "Score: <pct>% (<reason>" makes the parser raise RuntimeError with the  *)
(* reason in its message and the verbose script named; nothing else is     *)
(* raised.  Violated: \d% matches one digit only, so with "Score: 100% (": *)
(* the message cannot be built and AttributeError leaves the handler.      *)
(***************************************************************************)
ReasonOf(name) ==
    CASE name = "SCORE0"   -> SubSeq(ScoreLine0, 12, Len(ScoreLine0) - 1)
      [] name = "SCORE100" -> SubSeq(ScoreLine100, 14, Len(ScoreLine100) - 2)

ScoreLines(lexemes) ==
    { i \in 1..Len(lexemes) : lexemes[i] \in {"SCORE0", "SCORE100"} }

C5_JumbleFailureReason ==
    (pc = "done" /\ engine = "jumble"
        /\ StartIndex(report) = 0 /\ ScoreLines(report) # {}) =>
        /\ result.kind = "error"
        /\ result.error = "RuntimeError"
        /\ \E i \in ScoreLines(report) : result.reason = ReasonOf(report[i])
        /\ result.script = verbose_bash_script

\* what does hold: with a one-digit percentage line present, the first such
\* line's reason is reported
C5_JumbleFailureReasonOneDigit ==
    (pc = "done" /\ engine = "jumble"
        /\ StartIndex(report) = 0 /\ Count(report, "SCORE0") > 0) =>
        /\ result.kind = "error"
        /\ result.error = "RuntimeError"
        /\ result.reason = ReasonOf("SCORE0")
        /\ result.script = verbose_bash_script

(***************************************************************************)
(* C6: Major.  With no data row in the kill-status table the record is     *)
(* killed = 0, live = all = number of described mutants, score =           *)
(* score_full = 0, for any number of described mutants.                    *)
(***************************************************************************)
C6_MajorEmptyKillTable ==
    (pc = "done" /\ engine = "major" /\ DOMAIN report.kill = {}) =>
        /\ result.kind = "record"
        /\ result.killed = 0
        /\ result.live = Cardinality(report.mutants)
        /\ result.all = Cardinality(report.mutants)
        /\ result.score = 0
        /\ result.score_full[1] = 0

C6_Witness ==
    /\ Returned /\ engine = "major"
    /\ DOMAIN report.kill = {}
    /\ Cardinality(report.mutants) >= 2
    /\ result.live = Cardinality(report.mutants)

(***************************************************************************)
(* C7: Major.  With a non-empty kill-status table: all = number of         *)
(* described mutants, live = number of described mutants whose status is   *)
(* LIVE, killed = all - live; kill rows of mutants not described count     *)
(* nowhere.  Violated only where no mutant is described (the division of   *)
(* C2).                                                                    *)
(***************************************************************************)
MajorExpected ==
    /\ result.kind = "record"
    /\ result.all = Cardinality(report.mutants)
    /\ result.live = Cardinality({ no \in report.mutants \cap DOMAIN report.kill :
                                     report.kill[no] = "LIVE" })
    /\ result.killed = result.all - result.live

C7_MajorLeftJoin ==
    (pc = "done" /\ engine = "major" /\ DOMAIN report.kill # {}) => MajorExpected

\* C7 apart from the reports C2 is about
C7_MajorLeftJoinNonEmpty ==
    (pc = "done" /\ engine = "major" /\ DOMAIN report.kill # {}
        /\ ~DescribesNoMutants) => MajorExpected

(***************************************************************************)
(* C8: Pit.  When every direct child of the root carries detected "true"   *)
(* or "false": killed = number of children detected, live = number not     *)
(* detected, all = killed + live; nested elements are not counted.         *)
(* Violated only where the root has no child (the division of C2).         *)
(***************************************************************************)
PitDetected(tree, val) == Cardinality({ i \in 1..Len(tree) : tree[i].detected = val })

PitExpected ==
    /\ result.kind = "record"
    /\ result.killed = PitDetected(report, "true")
    /\ result.live = PitDetected(report, "false")
    /\ result.all = result.killed + result.live

C8_PitDirectChildren ==
    (pc = "done" /\ engine = "pit" /\ PitWellFormed(report)) => PitExpected

\* C8 apart from the reports C2 is about
C8_PitDirectChildrenNonEmpty ==
    (pc = "done" /\ engine = "pit" /\ PitWellFormed(report)
        /\ ~DescribesNoMutants) => PitExpected

(***************************************************************************)
(* C9: an artifact is consumed exactly once by collection.  After a        *)
(* get_output that returned, every expected artifact is in the output      *)
(* directory of the label given, being the very file the checkout held,    *)
(* and no longer in the checkout; a get_output with no run since the last  *)
(* one that returned raises FileNotFoundError.                             *)
(***************************************************************************)
C9_MovedNotCopied ==
    /\ (last.op = "get_output" /\ last.outcome = "ok") =>
          \A a \in Artifacts(tool) :
              /\ last.before[a] # 0
              /\ outdir[last.label][FileName(a)] = last.before[a]
              /\ checkout[a] = 0
    /\ (last.op = "get_output" /\ last.again) => last.outcome = "FileNotFoundError"

C9_Witness ==
    /\ tool = "major"
    /\ last.op = "get_output" /\ last.again
    /\ last.outcome = "FileNotFoundError"
    /\ \E l \in Labels : \A a \in Artifacts(tool) : outdir[l][FileName(a)] # 0

(***************************************************************************)
(* C10: get_output on a checkout holding none of the expected artifacts    *)
(* raises FileNotFoundError; after setup the checkout holds none of them,  *)
(* whatever was there; and setup, run writing every artifact, get_output   *)
(* in a row returns, the files collected being those of that run.          *)
(***************************************************************************)
C10_SetupClearsThenCollects ==
    /\ (last.op = "get_output" /\ last.before = NoFiles(tool)) =>
          last.outcome = "FileNotFoundError"
    /\ last.op = "setup" => checkout = NoFiles(tool)
    /\ retry.stage = "collected" =>
          /\ last.op = "get_output" /\ last.outcome = "ok"
          /\ checkout = NoFiles(tool)
          /\ \A a \in Artifacts(tool) : outdir[last.label][FileName(a)] = runs

\* the retry after a failed collection, with files of an earlier run about
C10_Witness ==
    /\ retry.stage = "collected" /\ retry.afterFailure
    /\ runs >= 2
    /\ tool = "major"

(***************************************************************************)
(* C11: setup raises (KeyError, the error of a missing parameter) exactly  *)
(* when the adapter is Jumble or Pit and kwargs lacks "tests" or "class";  *)
(* Judy's and Major's setup return whatever kwargs holds.                  *)
(***************************************************************************)
NeedsParams(t) == t \in {"jumble", "pit"}

C11_SetupMissingParameter ==
    last.op = "setup" =>
        /\ (NeedsParams(tool) /\ ~(last.kw.tests /\ last.kw.class)) => last.outcome = "KeyError"
        /\ (NeedsParams(tool) /\ last.kw.tests /\ last.kw.class) => last.outcome = "ok"
        /\ ~NeedsParams(tool) => last.outcome = "ok"

C11_Witness ==
    /\ tool = "pit"
    /\ last.op = "setup"
    /\ ~last.kw.tests /\ last.kw.class
    /\ last.outcome = "KeyError"

(***************************************************************************)
(* C12: get_mutation_score with a name given writes exactly one document,  *)
(* the parser's record, into the output directory of the label given,      *)
(* named by the name with ".json" appended unless it ends in ".json";      *)
(* with no name, or when the parser raised, it writes nothing; whenever it *)
(* returns, it returns the record's rounded score.                         *)
(***************************************************************************)
\* the record the parser makes of the report the files hold
ParserRecord == Tool_get_mutation_score(tool, outdir, scored.rep)

NameGiven == scored.json_output.given /\ scored.json_output.chars # << >>

ExpectedDocName ==
    LET chars == scored.json_output.chars
    IN  IF Len(chars) >= 5 /\ SubSeq(chars, Len(chars) - 4, Len(chars)) = <<".", "j", "s", "o", "n">>
        THEN chars
        ELSE chars \o <<".", "j", "s", "o", "n">>

ExpectedDoc ==
    [dir |-> scored.subdirectory, name |-> ExpectedDocName, content |-> ParserRecord]

PersistedAsClaimed ==
    /\ ParserRecord.kind = "error" => docs = scored.before /\ scored.outcome # "ok"
    /\ (ParserRecord.kind = "record" /\ ~NameGiven) => docs = scored.before
    /\ (ParserRecord.kind = "record" /\ NameGiven) =>
          /\ scored.outcome = "ok"
          /\ ExpectedDoc \in docs
          /\ \A d \in docs : d.dir = ExpectedDoc.dir /\ d.name = ExpectedDoc.name => d = ExpectedDoc
          /\ \A d \in docs \ {ExpectedDoc} : d \in scored.before
          /\ \A d \in scored.before :
                d \in docs \/ (d.dir = ExpectedDoc.dir /\ d.name = ExpectedDoc.name)
    /\ scored.outcome = "ok" => scored.returned = ParserRecord.score

C12_PersistedRecord == scored.called => PersistedAsClaimed

\* the same, for the calls whose output directory exists
C12_PersistedRecordInExistingDir ==
    (scored.called /\ scored.subdirectory \in scored.dirs) => PersistedAsClaimed

(***************************************************************************)
(* C17: a get_output that raises FileNotFoundError has moved nothing: the  *)
(* checkout holds what it held before the call.                            *)
(***************************************************************************)
C17_CollectAllOrNothing ==
    (last.op = "get_output" /\ last.outcome = "FileNotFoundError") => checkout = last.before

\* the same, for the adapters that expect a single artifact
C17_CollectAllOrNothingSingle ==
    (last.op = "get_output" /\ last.outcome = "FileNotFoundError" /\ Len(output(tool)) = 1)
        => checkout = last.before

(***************************************************************************)
(* C18: get_mutation_score(subdirectory = g) parses the files that         *)
(* get_output(subdirectory = g) collected, raising FileNotFoundError when  *)
(* nothing was collected under g, and a document it writes goes to the     *)
(* directory of g.                                                         *)
(***************************************************************************)
CollectedUnder(g) ==
    [i \in 1..Len(ParserReads(tool)) |-> outdir[g][ParserReads(tool)[i]]]

C18_ScoresWhatWasCollected ==
    scored.called =>
        /\ scored.parsed = CollectedUnder(scored.subdirectory)
        /\ (\E i \in 1..Len(ParserReads(tool)) : CollectedUnder(scored.subdirectory)[i] = 0)
              => scored.outcome = "FileNotFoundError" /\ docs = scored.before
        /\ \A d \in docs \ scored.before : d.dir = scored.subdirectory

\* the same, for the calls that name no group label
C18_ScoresWhatWasCollectedUnlabelled ==
    (scored.called /\ scored.subdirectory = "None") =>
        /\ scored.parsed = CollectedUnder(scored.subdirectory)
        /\ (\E i \in 1..Len(ParserReads(tool)) : CollectedUnder(scored.subdirectory)[i] = 0)
              => scored.outcome = "FileNotFoundError" /\ docs = scored.before
        /\ \A d \in docs \ scored.before : d.dir = scored.subdirectory

(***************************************************************************)
(* C13: get_tool with a name that is none of judy, jumble, major, pit      *)
(* raises (ValueError) with a message listing exactly these four names and *)
(* returns no adapter; with one of the four it returns the adapter of that *)
(* kind, holding the project path and the class under mutation given.      *)
(***************************************************************************)
KindOf ==
    [judy |-> "Judy", jumble |-> "Jumble", major |-> "Major", pit |-> "Pit"]

C13_RegistryLookup ==
    lastCall.op = "get_tool" =>
        IF lastCall.tool_name \in {"judy", "jumble", "major", "pit"}
        THEN /\ lastCall.outcome = "ok"
             /\ lastCall.returned.class = KindOf[lastCall.tool_name]
             /\ lastCall.returned.project_dir = lastCall.project_dir
             /\ lastCall.returned.class_under_mutation = lastCall.class_under_mutation
        ELSE /\ lastCall.outcome = "ValueError"
             /\ lastCall.returned = NoAdapter
             /\ Len(lastCall.listed) = 4
             /\ Range(lastCall.listed) = {"judy", "jumble", "major", "pit"}

C13_Witness ==
    /\ lastCall.op = "get_tool"
    /\ lastCall.tool_name = "Judy"
    /\ lastCall.outcome = "ValueError"

(***************************************************************************)
(* C14: a subcommand that is not one of the twelve allow-listed ones makes *)
(* the call fail before subprocess.run; subprocess.run is reached only for *)
(* an allow-listed subcommand.                                             *)
(***************************************************************************)
AllowList ==
    {"checkout", "compile", "coverage", "test", "mutation", "export", "query",
     "info", "env", "pids", "bids", "monitor.test"}

IsCommandCall == lastCall.op \in {"defects4j_cmd", "defects4j_cmd_dirpath"}

C14_OnlyAllowListedSpawn ==
    IsCommandCall =>
        /\ lastCall.cmd \notin AllowList => lastCall.outcome # "ok" /\ lastCall.ran = NotRun
        /\ lastCall.ran # NotRun => lastCall.cmd \in AllowList

\* the same, the empty string standing for "no subcommand": it is not
\* checked, and defects4j is run with the arguments alone
C14_OnlyAllowListedOrNoSubcommand ==
    IsCommandCall =>
        /\ (lastCall.cmd \notin AllowList /\ lastCall.cmd # "") =>
              /\ lastCall.ran = NotRun
              /\ lastCall.op = "defects4j_cmd" => lastCall.outcome = "AssertionError"
              /\ lastCall.op = "defects4j_cmd_dirpath" =>
                    lastCall.outcome \in {"AssertionError", "FileNotFoundError"}
        /\ lastCall.ran # NotRun =>
              \/ lastCall.cmd \in AllowList
                 /\ lastCall.ran = <<"defects4j", lastCall.cmd>> \o lastCall.args
              \/ lastCall.cmd = ""
                 /\ lastCall.ran = <<"defects4j">> \o lastCall.args

C14_Witness ==
    /\ lastCall.op = "defects4j_cmd"
    /\ lastCall.cmd = "clean"
    /\ lastCall.installed
    /\ lastCall.outcome = "AssertionError"

(***************************************************************************)
(* C19: after defects4j_cmd_dirpath and after get_tests the working        *)
(* directory is the one before the call, whether the call returned or      *)
(* raised.                                                                 *)
(***************************************************************************)
C19_WorkingDirectoryRestored ==
    lastCall.op \in {"defects4j_cmd_dirpath", "get_tests"} => cwd = lastCall.before

\* the same, for get_tests and for the calls of defects4j_cmd_dirpath that
\* returned or did not get into the project directory
C19_WorkingDirectoryRestoredOnReturn ==
    /\ lastCall.op = "get_tests" => cwd = lastCall.before
    /\ (lastCall.op = "defects4j_cmd_dirpath" /\ lastCall.outcome = "ok") => cwd = lastCall.before
    /\ (lastCall.op = "defects4j_cmd_dirpath" /\ lastCall.outcome # "ok"
            /\ Resolve(lastCall.before, lastCall.project_dir) # lastCall.before
            /\ lastCall.exists)
          => cwd = Resolve(lastCall.before, lastCall.project_dir)

(***************************************************************************)
(* C20: backup_tests leaves an existing backup as it is; no suite swap     *)
(* changes the backup; and restore_tests after backup_tests and any number *)
(* of swaps leaves the test directory holding exactly what the backup      *)
(* held, no backup directory, and no backup below the test directory.      *)
(***************************************************************************)
BackupKept ==
    /\ (fsCall.op = "backup_tests" /\ fsCall.backup_before.exists) =>
          backup = fsCall.backup_before
    /\ fsCall.op = "set_dir_testsuite" => backup = fsCall.backup_before

RoundTripped ==
    /\ test_dir.exists
    /\ test_dir.paths = trip.original
    /\ ~backup.exists
    /\ \A p \in test_dir.paths : p[1] # "dev_backup"

C20_BackupRoundTrip ==
    /\ BackupKept
    /\ trip.stage = "restored" => RoundTripped

\* the same, the round trip for the restores that find no test directory
C20_BackupRoundTripNoTestDir ==
    /\ BackupKept
    /\ (trip.stage = "restored" /\ ~fsCall.test_before.exists) =>
          /\ test_dir.exists
          /\ test_dir.paths = trip.original
          /\ ~backup.exists
    /\ (trip.stage = "restored" /\ fsCall.test_before.exists) =>
          /\ ~backup.exists
          /\ \A p \in fsCall.backup_before.paths : <<"dev_backup">> \o p \in test_dir.paths
          /\ fsCall.test_before.paths \subseteq test_dir.paths

(***************************************************************************)
(* C15: a call of one tool's lifecycle raising does not end the batch:     *)
(* when the driver is through, calls have been made for every tool.        *)
(***************************************************************************)
Lifecycle == {"setup", "run", "get_output", "get_mutation_score"}
Through == driver.status \in {"returned", "raised"}
Attended(k) == \E i \in 1..Len(events) : events[i].idx = k

LifecycleRaised ==
    \E i \in 1..Len(events) : events[i].outcome = "raised" /\ events[i].stage \in Lifecycle

C15_BatchSurvivesToolFailure ==
    (Through /\ LifecycleRaised) => \A k \in 1..Len(driver.tools) : Attended(k)

\* the same, for the runs in which no call raises
C15_BatchCompleteWithoutFailure ==
    /\ driver.status = "returned" => \A k \in 1..Len(driver.tools) : Attended(k)
    /\ driver.status = "raised" =>
          /\ events[Len(events)].outcome = "raised"
          /\ \A k \in 1..Len(driver.tools) : k > events[Len(events)].idx => ~Attended(k)

(***************************************************************************)
(* C16: the tools of a batch are processed one after the other, the calls  *)
(* for each in the order suite swap, compile, setup, run, get_output,      *)
(* get_mutation_score; a tool's setup comes after the last call for the    *)
(* tool before it has returned; at most one tool is set up and not yet     *)
(* through at any time.                                                    *)
(***************************************************************************)
Rank ==
    [set_testsuite |-> 1, compile |-> 2, setup |-> 3, run |-> 4, get_output |-> 5,
     get_mutation_score |-> 6]

FinalStage ==
    IF driver.mode = "get_mutation_scores" THEN "get_mutation_score" ELSE "get_output"

C16_OneToolAtATime ==
    driver.status # "off" =>
        /\ Cardinality(active) <= 1
        /\ \A i, j \in 1..Len(events) :
              i < j =>
                 /\ events[i].idx <= events[j].idx
                 /\ (events[i].idx = events[j].idx
                       /\ events[i].stage \in DOMAIN Rank /\ events[j].stage \in DOMAIN Rank)
                      => Rank[events[i].stage] < Rank[events[j].stage]
        /\ \A j \in 1..Len(events) :
              events[j].stage = "setup" =>
                 /\ \E i, k \in 1..(j - 1) :
                       /\ i < k
                       /\ events[i].stage = "set_testsuite" /\ events[k].stage = "compile"
                       /\ events[i].idx = events[k].idx
                       /\ events[i].idx = IF driver.mode = "get_mutants" THEN 0 ELSE events[j].idx
                 /\ events[j].idx > 1 =>
                       /\ events[j - 1].idx <= events[j].idx
                       /\ \E i \in 1..(j - 1) :
                             /\ events[i].idx = events[j].idx - 1
                             /\ events[i].stage = FinalStage
                             /\ events[i].outcome = "ok"
                             /\ \A m \in (i + 1)..(j - 1) : events[m].idx = events[j].idx

C16_Witness ==
    /\ driver.status = "returned"
    /\ driver.mode = "get_mutation_scores"
    /\ Len(driver.tools) = 2
    /\ driver.tools[1] # driver.tools[2]

====
